---- MODULE Spec2Model ----
(***************************************************************************)
(* Model of package stew (src/stew.go): NewFromNode builds an indexed     *)
(* tree of Stew nodes from an html.Node tree in two breadth-first passes,  *)
(* the methods Stew.FindAll / Stew.Find query the index, and the package   *)
(* level FindAll / Find build breadth-first lookups over the raw tree.     *)
(*                                                                         *)
(* Strings are sequences of one-character strings, so that TrimSpace and   *)
(* string equality are computed and not assumed.  An html.Node is named by *)
(* a number 1..n; the Stew allocated for an html.Node (the nodePair of the *)
(* downward pass) is named by the same number.  A tag set of a DescMap is  *)
(* a heap object named by <<owner, tag>>, the node and key it was made     *)
(* for; a DescMap maps a key to the name of a tag set, so two DescMaps can *)
(* hold the same set, as Go maps are reference values.                     *)
(***************************************************************************)
EXTENDS Integers, Sequences, FiniteSets, Bags, TLC

\* Largest number of html nodes in an input tree.
MaxNodes == 5

\* nil *Stew
NIL == 0

\* html.NodeType values used by the code, and the kinds it ignores.
ElementNode == "ElementNode"
TextNode == "TextNode"
DocumentNode == "DocumentNode"
CommentNode == "CommentNode"

\* The strings of the inputs.
EmptyStr == <<>>
TagA == <<"a">>
TagB == <<"b">>
TagC == <<"c">>
KeyK == <<"k">>
KeyJ == <<"j">>
ValV == <<"v">>
ValW == <<"w">>

IsSpace(c) == c = " "

\* strings.TrimSpace: drop leading and trailing white space.
NoTrim(s) == s

RECURSIVE TrimLeft(_)
TrimLeft(s) ==
  IF s # <<>> /\ IsSpace(Head(s)) THEN TrimLeft(Tail(s)) ELSE s

RECURSIVE TrimRight(_)
TrimRight(s) ==
  IF s # <<>> /\ IsSpace(s[Len(s)]) THEN TrimRight(SubSeq(s, 1, Len(s) - 1)) ELSE s

TrimSpace(s) == TrimRight(TrimLeft(s))

VARIABLES
  html,        \* the raw tree: node -> [Type, Data, Attr, Parent]
  pc,          \* position in the program
  downQueue,   \* NewFromNode: queue of nodePair
  upQueue,     \* NewFromNode: queue of *Stew
  upVisits,    \* NewFromNode: map[*Stew]uint
  pos,         \* NewFromNode: next position
  stew,        \* the allocated Stew nodes: node -> fields
  sets,        \* the tag sets (map[*Stew]struct{}) by name
  merged,      \* history: the Stew nodes dequeued by the upward pass, in order
  call,        \* the query being answered
  results,     \* Stew.FindAll / Stew.Find: the returned nodes, as a bag
  lkQueue,     \* generateLookup: queue of *html.Node
  lkResults,   \* generateLookup: results
  lkVisited,   \* history: the nodes the query functor was applied to, in order
  first        \* the tree an earlier call of NewFromNode returned, by Pos

vars == <<html, pc, downQueue, upQueue, upVisits, pos, stew, sets, merged,
          call, results, lkQueue, lkResults, lkVisited, first>>

buildVars == <<downQueue, upQueue, upVisits, pos, stew, sets, merged>>
queryVars == <<call, results, lkQueue, lkResults, lkVisited>>

----------------------------------------------------------------------------
\* The raw tree (golang.org/x/net/html Node, read only)

Nodes == DOMAIN html
RootNode == 1

\* FirstChild / NextSibling: the children of h in document order.
RECURSIVE KidsFrom(_, _)
KidsFrom(h, i) ==
  IF i > Cardinality(Nodes) THEN <<>>
  ELSE IF html[i].Parent = h THEN <<i>> \o KidsFrom(h, i + 1)
  ELSE KidsFrom(h, i + 1)

Kids(h) == KidsFrom(h, 1)

----------------------------------------------------------------------------
\* Go maps: a missing key reads as the zero value

MapPut(m, k, v) == (k :> v) @@ m

AttrGet(m, k) == IF k \in DOMAIN m THEN m[k] ELSE <<>>

CountGet(m, k) == IF k \in DOMAIN m THEN m[k] ELSE 0

\* uint arithmetic wraps; UintMax stands for the largest uint
UintMax == 2147483647
UintInc(x) == IF x = UintMax THEN 0 ELSE x + 1
UintDec(x) == IF x = 0 THEN UintMax ELSE x - 1

\* pos++
SamePos(p) == p

NextPos(p) == UintInc(p)

\* queue.Add of a FIFO queue
QueuePush(queue, x) == <<x>> \o queue

QueueAdd(queue, x) == Append(queue, x)

\* sNode.Children = append(sNode.Children, sChild)
PrependChild(children, sChild) == <<sChild>> \o children

AddChild(children, sChild) == Append(children, sChild)

\* descs[sChild] = struct{}{}
AddDescSelf(descs, sNode, sChild) == descs \cup {sNode}

AddDesc(descs, sNode, sChild) == descs \cup {sChild}

NewStew(p, tag, parent) ==
  [Pos |-> p, Tag |-> tag, Parent |-> parent, Children |-> <<>>,
   Descs |-> <<>>, Attrs |-> <<>>]

----------------------------------------------------------------------------
\* NewFromNode, downward pass

\* for _, attr := range hNode.Attr
RECURSIVE CopyAttrs(_, _, _)
CopyAttrs(attrs, list, i) ==
  IF i > Len(list) THEN attrs
  ELSE CopyAttrs(MapPut(attrs, list[i].Key,
                        Append(AttrGet(attrs, list[i].Key), list[i].Val)),
                 list, i + 1)

\* case html.ElementNode
ElementChild(st, s, c) ==
  LET tag == html[c].Data
      ref == IF tag \in DOMAIN st.stew[s].Descs
             THEN st.stew[s].Descs[tag] ELSE <<s, tag>>
      heap == IF tag \in DOMAIN st.stew[s].Descs
              THEN st.sets ELSE MapPut(st.sets, ref, {})
      sNode == [st.stew[s] EXCEPT
                  !.Children = AddChild(@, c),
                  !.Descs = MapPut(@, tag, ref)]
  IN [stew |-> MapPut(MapPut(st.stew, s, sNode), c, NewStew(st.pos, tag, s)),
      sets |-> MapPut(heap, ref, AddDesc(heap[ref], s, c)),
      pos |-> NextPos(st.pos),
      upVisits |-> MapPut(st.upVisits, s, UintInc(CountGet(st.upVisits, s))),
      downQueue |-> QueueAdd(st.downQueue, c)]

\* case html.TextNode
TextChild(st, s, c) ==
  LET content == TrimSpace(html[c].Data)
  IN IF Len(content) > 0
     THEN [st EXCEPT !.stew[s].Attrs =
             MapPut(@, EmptyStr, Append(AttrGet(@, EmptyStr), content))]
     ELSE st

\* for child := hNode.FirstChild; child != nil; child = child.NextSibling
\* (st is the value of st0, evaluated once per iteration)
RECURSIVE VisitChildren(_, _, _, _)
VisitChildren(st0, s, kids, i) ==
  IF i > Len(kids) THEN st0
  ELSE LET c == kids[i]
       IN CHOOSE r \in
            {VisitChildren(
               CASE html[c].Type = ElementNode -> ElementChild(st, s, c)
                 [] html[c].Type = TextNode -> TextChild(st, s, c)
                 [] OTHER -> st,
               s, kids, i + 1) : st \in {st0}} : TRUE

\* One iteration of the loop over downQueue.
DownStep ==
  /\ pc = "down"
  /\ downQueue # <<>>
  /\ LET hNode == Head(downQueue)
         st0 == [stew |-> [stew EXCEPT ![hNode].Attrs =
                             CopyAttrs(@, html[hNode].Attr, 1)],
                 sets |-> sets, pos |-> pos, upVisits |-> upVisits,
                 downQueue |-> Tail(downQueue)]
     IN \E st \in {VisitChildren(st0, hNode, Kids(hNode), 1)} :
          /\ stew' = st.stew
          /\ sets' = st.sets
          /\ pos' = st.pos
          /\ upVisits' = st.upVisits
          /\ downQueue' = st.downQueue
          /\ upQueue' = IF DOMAIN st.stew[hNode].Descs = {}
                        THEN QueueAdd(upQueue, hNode) ELSE upQueue
          /\ pc' = IF st.downQueue = <<>> THEN "up" ELSE "down"
  /\ UNCHANGED <<html, merged, first>>
  /\ UNCHANGED queryVars

----------------------------------------------------------------------------
\* NewFromNode, upward pass

\* the body of "for key, value := range child.Descs"
MergeKeyAbsentOnly(st, curr, child, key) ==
  LET value == st.stew[child].Descs[key]
  IN IF key \in DOMAIN st.stew[curr].Descs
     THEN st
     ELSE [st EXCEPT !.stew[curr].Descs = MapPut(@, key, value)]

MergeKey(st, curr, child, key) ==
  LET value == st.stew[child].Descs[key]
  IN IF key \in DOMAIN st.stew[curr].Descs
     THEN LET descs == st.stew[curr].Descs[key]
          IN [st EXCEPT !.sets[descs] = @ \cup st.sets[value]]
     ELSE [st EXCEPT !.stew[curr].Descs = MapPut(@, key, value)]

\* the orders in which Go may iterate over a map with the keys K
RECURSIVE KeyOrders(_)
KeyOrders(K) ==
  IF K = {} THEN {<<>>}
  ELSE UNION {{<<k>> \o o : o \in KeyOrders(K \ {k})} : k \in K}

\* for key, value := range child.Descs, in the order given
\* (st is the value of st0, evaluated once per iteration)
RECURSIVE MergeChild(_, _, _, _, _)
MergeChild(st0, curr, child, order, i) ==
  IF i > Len(order) THEN st0
  ELSE CHOOSE r \in
         {MergeChild(MergeKey(st, curr, child, order[i]), curr, child, order, i + 1) :
            st \in {st0}} : TRUE

\* for _, child := range curr.Children: the outcomes, over the orders of
\* the map iterations
RECURSIVE MergeChildren(_, _, _)
MergeChildren(st, curr, i) ==
  IF i > Len(st.stew[curr].Children) THEN {st}
  ELSE LET child == st.stew[curr].Children[i]
       IN UNION {MergeChildren(next, curr, i + 1) :
                   next \in {MergeChild(st, curr, child, order, 1) :
                               order \in KeyOrders(DOMAIN st.stew[child].Descs)}}

\* curr.Parent != nil && upVisits[curr.Parent] == 0
ParentNotNil(visits, parent) == parent # NIL

ParentReady(visits, parent) == parent # NIL /\ visits[parent] = 0

\* upVisits[curr.Parent]--
NoDec(x) == x

Decrement(x) == UintDec(x)

\* One iteration of the loop over upQueue.
UpStep ==
  /\ pc = "up"
  /\ upQueue # <<>>
  /\ \E st \in MergeChildren([stew |-> stew, sets |-> sets], Head(upQueue), 1) :
       LET curr == Head(upQueue)
           parent == stew[curr].Parent
           visits == MapPut(upVisits, parent, Decrement(CountGet(upVisits, parent)))
           queue == IF ParentReady(visits, parent)
                    THEN QueueAdd(Tail(upQueue), parent) ELSE Tail(upQueue)
       IN /\ stew' = st.stew
          /\ sets' = st.sets
          /\ upVisits' = visits
          /\ upQueue' = queue
          /\ merged' = Append(merged, curr)
          /\ pc' = IF queue = <<>> THEN "done" ELSE "up"
  /\ UNCHANGED <<html, downQueue, pos, first>>
  /\ UNCHANGED queryVars

----------------------------------------------------------------------------
\* Stew.FindAll and Stew.Find: the result as a bag (node -> number of
\* occurrences in the returned slice); the order of a result is the order
\* of a Go map iteration and is not modelled.

TwiceBag(S) == [m \in S |-> 2]

SetBag(S) == [m \in S |-> 1]

\* the sets of this.Descs, read as Go reads a map
DescSet(n, tag) ==
  IF tag \in DOMAIN stew[n].Descs THEN sets[stew[n].Descs[tag]] ELSE {}

Range(seq) == {seq[i] : i \in DOMAIN seq}

\* for _, tag := range tags { if this.Tag == tag
OwnTagFirst(this, tags) == stew[this].Tag = tags[1]

OwnTag(this, tags) == \E i \in DOMAIN tags : stew[this].Tag = tags[i]

StewFindAll(this, tags) ==
  LET own == IF OwnTag(this, tags) THEN {this} ELSE {}
      stews == own \cup UNION {DescSet(this, tags[i]) : i \in DOMAIN tags}
  IN SetBag(stews)

\* for _, attrVal := range this.Attrs[attrKey] { if attrVal == attrVal
\* the loop variable shadows the parameter and is compared with itself
OwnMatchByValue(this, attrKey, attrVal) ==
  \E i \in DOMAIN AttrGet(stew[this].Attrs, attrKey) :
     AttrGet(stew[this].Attrs, attrKey)[i] = attrVal

OwnMatch(this, attrKey, attrVal) ==
  \E i \in DOMAIN AttrGet(stew[this].Attrs, attrKey) :
     AttrGet(stew[this].Attrs, attrKey)[i] = AttrGet(stew[this].Attrs, attrKey)[i]

\* for _, val := range s.Attrs[attrKey] { if val == attrVal
DescMatch(s, attrKey, attrVal) ==
  \E i \in DOMAIN AttrGet(stew[s].Attrs, attrKey) :
     AttrGet(stew[s].Attrs, attrKey)[i] = attrVal

StewFind(this, attrKey, attrVal) ==
  LET own == IF OwnMatch(this, attrKey, attrVal) THEN SetBag({this}) ELSE EmptyBag
      found(tag) == SetBag({s \in DescSet(this, tag) : DescMatch(s, attrKey, attrVal)})
      keys == DOMAIN stew[this].Descs
      RECURSIVE Sum(_)
      Sum(K) == IF K = {} THEN EmptyBag
                ELSE LET k == CHOOSE x \in K : TRUE
                     IN found(k) (+) Sum(K \ {k})
  IN own (+) Sum(keys)

----------------------------------------------------------------------------
\* The package level FindAll and Find, and generateLookup

\* FindAll's functor: isTarget = isTarget || node.Data == tag
TagTarget(tags, h) == \E i \in DOMAIN tags : html[h].Data = tags[i]

\* Find's functor: the first attribute with the key decides
RECURSIVE AttrTargetFrom(_, _, _, _)
AttrTargetFrom(list, attrKey, attrVal, i) ==
  IF i > Len(list) THEN FALSE
  ELSE IF list[i].Key = attrKey THEN list[i].Val = attrVal
  ELSE AttrTargetFrom(list, attrKey, attrVal, i + 1)

AttrTarget(attrKey, attrVal, h) == AttrTargetFrom(html[h].Attr, attrKey, attrVal, 1)

\* queryOpt of a lookup
Query(q, h) ==
  IF q.op = "FindAll" THEN TagTarget(q.tags, h) ELSE AttrTarget(q.key, q.val, h)

\* queue.Add(child) for every child, in document order
PushKids(queue, h) == Kids(h) \o queue

EnqueueKids(queue, h) == queue \o Kids(h)

\* the loop of the lookup: [queue, results, visited]
RECURSIVE LookupLoop(_, _)
LookupLoop(q, lk) ==
  IF lk.queue = <<>> THEN lk
  ELSE LET curr == Head(lk.queue)
       IN LookupLoop(q,
            [queue |-> EnqueueKids(Tail(lk.queue), curr),
             results |-> IF Query(q, curr) THEN Append(lk.results, curr)
                         ELSE lk.results,
             visited |-> Append(lk.visited, curr)])

GenerateLookup(q, root) ==
  LookupLoop(q, [queue |-> <<root>>, results |-> <<>>, visited |-> <<>>])

----------------------------------------------------------------------------
\* The inputs

Attr(k, v) == [Key |-> k, Val |-> v]

Label(type, data, attr) == [Type |-> type, Data |-> data, Attr |-> attr]

ElementLabels ==
  { Label(ElementNode, TagA, <<>>),
    Label(ElementNode, TagB,
          <<Attr(KeyK, ValW), Attr(EmptyStr, ValV), Attr(KeyK, ValV)>>) }

\* text and comment nodes: html.Parse gives them no children
LeafLabels ==
  { Label(TextNode, <<" ", "x", " ">>, <<>>),
    Label(TextNode, <<" ">>, <<>>),
    Label(CommentNode, TagB, <<>>) }

RootLabels == ElementLabels \cup {Label(DocumentNode, EmptyStr, <<>>)}

RECURSIVE AncSelf(_, _)
AncSelf(p, i) == IF i = 0 THEN {} ELSE {i} \cup AncSelf(p, p[i])

\* the ordered trees of n nodes, numbered in document (depth first) order
Shapes(n) ==
  { p \in [1..n -> 0..(n - 1)] :
      /\ \A i \in 1..n : p[i] < i
      /\ \A i \in 2..n : p[i] \in AncSelf(p, i - 1) }

\* the labels node i of shape p may bear
LabelsAt(p, i) ==
  IF i = 1 THEN RootLabels
  ELSE IF \E j \in DOMAIN p : p[j] = i THEN ElementLabels
  ELSE ElementLabels \cup LeafLabels

\* the labellings of the first i nodes of shape p
RECURSIVE Labellings(_, _)
Labellings(p, i) ==
  IF i = 0 THEN {<<>>}
  ELSE {Append(l, x) : l \in Labellings(p, i - 1), x \in LabelsAt(p, i)}

\* the raw tree of shape p with labelling lab
Tree(p, lab) ==
  [i \in DOMAIN p |-> [Type |-> lab[i].Type, Data |-> lab[i].Data,
                       Attr |-> lab[i].Attr, Parent |-> p[i]]]

TagLists == { <<TagB>>, <<TagB, TagA, TagB>>, <<TagC>> }

AttrPairs == { <<KeyK, ValV>>, <<EmptyStr, <<"x">>>>, <<KeyJ, ValV>> }

NoCall == [op |-> "none", node |-> NIL, tags |-> <<>>, key |-> <<>>, val |-> <<>>]

\* no tree returned yet
NoTree == <<>>

\* the node of the tree with Pos p
AtPos(p) == CHOOSE n \in DOMAIN stew : stew[n].Pos = p

\* the tree NewFromNode returns, as its caller can see it: by Pos, the Tag,
\* the Attrs, the Children and the contents of the Descs
ReturnedTree ==
  [p \in {stew[n].Pos : n \in DOMAIN stew} |->
     LET n == AtPos(p)
     IN [Tag |-> stew[n].Tag,
         Attrs |-> stew[n].Attrs,
         Parent |-> IF stew[n].Parent = NIL THEN <<>>
                    ELSE <<stew[stew[n].Parent].Pos>>,
         Children |-> [i \in DOMAIN stew[n].Children |->
                         stew[stew[n].Children[i]].Pos],
         Descs |-> [t \in DOMAIN stew[n].Descs |->
                      {stew[m].Pos : m \in sets[stew[n].Descs[t]]}]]]

\* the locals of a call of NewFromNode; prev holds what an earlier call left
StaleLocals(prev) ==
  [downQueue |-> <<RootNode>>, upQueue |-> <<>>, upVisits |-> <<>>,
   pos |-> prev.pos]

Locals(prev) ==
  [downQueue |-> <<RootNode>>, upQueue |-> <<>>, upVisits |-> <<>>,
   pos |-> 1]

\* NewFromNode up to the first test of downQueue.Length()
Init ==
  /\ \E n \in 1..MaxNodes : \E p \in Shapes(n) : \E lab \in Labellings(p, n) :
       html = Tree(p, lab)
  /\ pc = "down"
  /\ downQueue = <<RootNode>>
  /\ upQueue = <<>>
  /\ upVisits = <<>>
  /\ pos = 1
  /\ stew = (RootNode :> NewStew(0, html[RootNode].Data, NIL))
  /\ sets = <<>>
  /\ merged = <<>>
  /\ call = NoCall
  /\ results = EmptyBag
  /\ lkQueue = <<>>
  /\ lkResults = <<>>
  /\ lkVisited = <<>>
  /\ first = NoTree

\* this.FindAll(tags...) on a node of the finished tree
CallStewFindAll ==
  /\ pc = "done"
  /\ \E this \in DOMAIN stew, tags \in TagLists :
       /\ call' = [NoCall EXCEPT !.op = "Stew.FindAll", !.node = this, !.tags = tags]
       /\ results' = StewFindAll(this, tags)
  /\ pc' = "answered"
  /\ UNCHANGED <<html, lkQueue, lkResults, lkVisited, first>>
  /\ UNCHANGED buildVars

\* this.Find(attrKey, attrVal) on a node of the finished tree
CallStewFind ==
  /\ pc = "done"
  /\ \E this \in DOMAIN stew, kv \in AttrPairs :
       /\ call' = [NoCall EXCEPT !.op = "Stew.Find", !.node = this,
                                 !.key = kv[1], !.val = kv[2]]
       /\ results' = StewFind(this, kv[1], kv[2])
  /\ pc' = "answered"
  /\ UNCHANGED <<html, lkQueue, lkResults, lkVisited, first>>
  /\ UNCHANGED buildVars

\* FindAll(tags...)(root) on the raw tree
CallFindAll ==
  /\ pc = "done"
  /\ \E tags \in TagLists :
       LET q == [NoCall EXCEPT !.op = "FindAll", !.node = RootNode, !.tags = tags]
           lk == GenerateLookup(q, RootNode)
       IN /\ call' = q
          /\ lkQueue' = lk.queue
          /\ lkResults' = lk.results
          /\ lkVisited' = lk.visited
  /\ pc' = "answered"
  /\ UNCHANGED <<html, results, first>>
  /\ UNCHANGED buildVars

\* Find(attrKey, attrVal)(root) on the raw tree
CallFind ==
  /\ pc = "done"
  /\ \E kv \in AttrPairs :
       LET q == [NoCall EXCEPT !.op = "Find", !.node = RootNode,
                               !.key = kv[1], !.val = kv[2]]
           lk == GenerateLookup(q, RootNode)
       IN /\ call' = q
          /\ lkQueue' = lk.queue
          /\ lkResults' = lk.results
          /\ lkVisited' = lk.visited
  /\ pc' = "answered"
  /\ UNCHANGED <<html, results, first>>
  /\ UNCHANGED buildVars

\* a second call NewFromNode(root) on the same raw tree
CallNewFromNodeAgain ==
  /\ pc = "done"
  /\ first = NoTree
  /\ first' = ReturnedTree
  /\ LET new == Locals([downQueue |-> downQueue, upQueue |-> upQueue,
                        upVisits |-> upVisits, pos |-> pos])
     IN /\ downQueue' = new.downQueue
        /\ upQueue' = new.upQueue
        /\ upVisits' = new.upVisits
        /\ pos' = new.pos
  /\ stew' = (RootNode :> NewStew(0, html[RootNode].Data, NIL))
  /\ sets' = <<>>
  /\ merged' = <<>>
  /\ pc' = "down"
  /\ UNCHANGED html
  /\ UNCHANGED queryVars

Next ==
  \/ DownStep
  \/ UpStep
  \/ CallStewFindAll
  \/ CallStewFind
  \/ CallFindAll
  \/ CallFind

Spec == Init /\ [][Next]_vars

\* NewFromNode called twice on one raw tree
NextTwice ==
  \/ DownStep
  \/ UpStep
  \/ CallNewFromNodeAgain

SpecTwice == Init /\ [][NextTwice]_vars

\* one call of NewFromNode, which runs without waiting: each loop goes on
\* while its queue is not empty
NextBuild ==
  \/ DownStep
  \/ UpStep

SpecBuild == Init /\ [][NextBuild]_vars /\ WF_vars(DownStep) /\ WF_vars(UpStep)

----------------------------------------------------------------------------
\* Vocabulary of the properties

Stews == DOMAIN stew

\* NewFromNode has returned
Built == pc \in {"done", "answered"}

Answered(op) == pc = "answered" /\ call.op = op

\* the nodes of the indexed tree below n, n included
RECURSIVE Subtree(_)
Subtree(n) ==
  {n} \cup UNION {Subtree(stew[n].Children[i]) : i \in DOMAIN stew[n].Children}

RECURSIVE Depth(_)
Depth(n) == IF stew[n].Parent = NIL THEN 0 ELSE 1 + Depth(stew[n].Parent)

\* the root and the element nodes of the raw tree
Elements == {RootNode} \cup {h \in Nodes : html[h].Type = ElementNode}

NoDuplicates(seq) == \A i, j \in DOMAIN seq : seq[i] = seq[j] => i = j

TagsOf(tags) == Range(tags)

----------------------------------------------------------------------------
\* C1: for every indexed node N and tag T, N.FindAll(T) returns exactly the
\* nodes of N's subtree, N included, whose Tag is T.
C1_FindAllIsSubtreeTagSet ==
  (Answered("Stew.FindAll") /\ Len(call.tags) = 1) =>
     BagToSet(results) =
       {m \in Subtree(call.node) : stew[m].Tag = call.tags[1]}

\* C2: after NewFromNode returns, no node is a member of a tag set of its own
\* descendant index.
C2_NoSelfInclusion ==
  Built => \A n \in Stews : \A t \in DOMAIN stew[n].Descs : n \notin DescSet(n, t)

\* a finished tree with an element nested below an element of the same tag
C2_Witness ==
  /\ Built
  /\ \E n \in Stews : DescSet(n, stew[n].Tag) # {} /\ stew[n].Parent # NIL

\* C3: the Pos values are exactly 0..N-1 for N = root plus element nodes,
\* each used once, 0 on the root, and a parent's Pos is below its child's.
C3_PositionBijection ==
  Built =>
    /\ Stews = Elements
    /\ {stew[n].Pos : n \in Stews} = 0..(Cardinality(Elements) - 1)
    /\ \A m, n \in Stews : stew[m].Pos = stew[n].Pos => m = n
    /\ stew[RootNode].Pos = 0
    /\ \A n \in Stews \ {RootNode} : stew[stew[n].Parent].Pos < stew[n].Pos

\* a finished tree of three or more indexed nodes and a text and a comment
C3_Witness ==
  /\ Built
  /\ Cardinality(Stews) >= 3
  /\ \E h \in Nodes : html[h].Type = TextNode
  /\ \E h \in Nodes : html[h].Type = CommentNode

----------------------------------------------------------------------------
\* C4: FindAll(tags...)(rawRoot) and NewFromNode(rawRoot).FindAll(tags...)
\* correspond one to one: as many results, and the raw nodes returned are
\* exactly the sources of the indexed nodes returned.
C4_LookupAgreesWithIndex ==
  Answered("FindAll") =>
    /\ Len(lkResults) = BagCardinality(StewFindAll(RootNode, call.tags))
    /\ NoDuplicates(lkResults)
    /\ Range(lkResults) = BagToSet(StewFindAll(RootNode, call.tags))

\* C5: N.Find(K, V) returns exactly the nodes n of N's subtree, N included,
\* with V among n.Attrs[K].
C5_FindIsSubtreeAttrSet ==
  Answered("Stew.Find") =>
    BagToSet(results) =
      {n \in Subtree(call.node) :
         call.val \in Range(AttrGet(stew[n].Attrs, call.key))}

\* C6: on the root, FindAll(tags...) returns exactly the nodes of the whole
\* tree whose Tag is among the tags, each once.
C6_RootFindAll ==
  (Answered("Stew.FindAll") /\ call.node = RootNode) =>
    results = SetBag({n \in Stews : stew[n].Tag \in TagsOf(call.tags)})

\* the root bears a listed tag that is not the first of the list, and nodes
\* two levels down are returned
C6_Witness ==
  /\ Answered("Stew.FindAll")
  /\ call.node = RootNode
  /\ Len(call.tags) > 1
  /\ stew[RootNode].Tag \in TagsOf(call.tags) \ {call.tags[1]}
  /\ \E n \in BagToSet(results) : Depth(n) >= 2

\* the values of the attributes of h with key k, in source order
AttrValues(h, k) ==
  LET sel == SelectSeq(html[h].Attr, LAMBDA a : a.Key = k)
  IN [i \in 1..Len(sel) |-> sel[i].Val]

Blank(d) == \A i \in DOMAIN d : IsSpace(d[i])

\* t is d without its leading and trailing white space
IsTrimOf(t, d) ==
  /\ t # <<>> => ~IsSpace(t[1]) /\ ~IsSpace(t[Len(t)])
  /\ \E i, j \in 0..Len(d) :
       /\ i + j <= Len(d)
       /\ t = SubSeq(d, i + 1, Len(d) - j)
       /\ Blank(SubSeq(d, 1, i))
       /\ Blank(SubSeq(d, Len(d) - j + 1, Len(d)))

\* the direct text children of h that are not white space only
TextKids(h) ==
  SelectSeq(Kids(h), LAMBDA c : html[c].Type = TextNode /\ ~Blank(html[c].Data))

AttrKeys == {KeyK, KeyJ, EmptyStr}

\* C7: Attrs[K] is the values of the source's attributes with key K in
\* source order; Attrs[""] holds after them the trimmed content of every
\* direct text child that is not white space only, in document order.
C7_AttrsMirrorSource ==
  Built =>
    \A n \in Stews :
      /\ \A k \in (AttrKeys \cup DOMAIN stew[n].Attrs) \ {EmptyStr} :
           AttrGet(stew[n].Attrs, k) = AttrValues(n, k)
      /\ LET got == AttrGet(stew[n].Attrs, EmptyStr)
             own == AttrValues(n, EmptyStr)
             txt == TextKids(n)
         IN /\ Len(got) = Len(own) + Len(txt)
            /\ SubSeq(got, 1, Len(own)) = own
            /\ \A i \in 1..Len(txt) :
                 IsTrimOf(got[Len(own) + i], html[txt[i]].Data)

\* a node with a repeated key, an attribute of key "", two text children
\* that are kept, one of them padded, and one that is white space only
C7_Witness ==
  /\ Built
  /\ \E n \in Stews :
       /\ Len(AttrValues(n, KeyK)) >= 2
       /\ Len(AttrValues(n, EmptyStr)) >= 1
       /\ Len(TextKids(n)) >= 2
       /\ \E i \in DOMAIN TextKids(n) : IsSpace(html[TextKids(n)[i]].Data[1])
       /\ \E c \in Range(Kids(n)) : html[c].Type = TextNode /\ Blank(html[c].Data)

ElementKids(h) == SelectSeq(Kids(h), LAMBDA c : html[c].Type = ElementNode)

Occurrences(seq, x) == Cardinality({i \in DOMAIN seq : seq[i] = x})

\* C8: the indexed tree is one rooted tree mirroring the elements of the raw
\* tree: only the root has a nil Parent, a node occurs once in its parent's
\* Children and in no other Children, and Children lists the nodes of the
\* source's element children in document order.
C8_TreeMirrorsElements ==
  Built =>
    /\ \A n \in Stews : (stew[n].Parent = NIL) <=> (n = RootNode)
    /\ \A n \in Stews \ {RootNode} :
         /\ stew[n].Parent \in Stews
         /\ stew[n].Parent = html[n].Parent
         /\ \A m \in Stews :
              Occurrences(stew[m].Children, n) = IF m = stew[n].Parent THEN 1 ELSE 0
    /\ \A n \in Stews : stew[n].Children = ElementKids(n)

\* a node below the root with two element children and a text child between
C8_Witness ==
  /\ Built
  /\ \E n \in Stews \ {RootNode} :
       /\ Len(stew[n].Children) = 2
       /\ \E c \in Range(Kids(n)) :
            /\ html[c].Type = TextNode
            /\ stew[n].Children[1] < c
            /\ c < stew[n].Children[2]

\* C9: Pos follows breadth-first discovery: a shallower node has the lower
\* Pos, the children of a node have consecutive Pos in document order, and
\* at equal depth the children of the lower-Pos parent come first.
C9_PosBreadthFirst ==
  Built =>
    /\ \A u, v \in Stews : Depth(u) < Depth(v) => stew[u].Pos < stew[v].Pos
    /\ \A n \in Stews : \A i \in 1..(Len(stew[n].Children) - 1) :
         stew[stew[n].Children[i + 1]].Pos = stew[stew[n].Children[i]].Pos + 1
    /\ \A u, v \in Stews \ {RootNode} :
         (Depth(u) = Depth(v) /\ stew[stew[u].Parent].Pos < stew[stew[v].Parent].Pos)
           => stew[u].Pos < stew[v].Pos

\* two cousins, and a node that is earlier in the document than another
\* and has the higher Pos
C9_Witness ==
  /\ Built
  /\ \E u, v \in Stews \ {RootNode} :
       /\ Depth(u) = Depth(v)
       /\ stew[u].Parent # stew[v].Parent
  /\ \E u, v \in Stews : u < v /\ stew[u].Pos > stew[v].Pos

RECURSIVE HDepth(_)
HDepth(h) == IF html[h].Parent = 0 THEN 0 ELSE 1 + HDepth(html[h].Parent)

\* the ancestor of h at depth d
RECURSIVE AncestorAt(_, _)
AncestorAt(h, d) == IF HDepth(h) = d THEN h ELSE AncestorAt(html[h].Parent, d)

\* u is before v among the children of their parent
SiblingBefore(u, v) ==
  \E i, j \in DOMAIN Kids(html[u].Parent) :
     i < j /\ Kids(html[u].Parent)[i] = u /\ Kids(html[u].Parent)[j] = v

\* level by level, and within a level left to right
BfsBefore(u, v) ==
  \/ HDepth(u) < HDepth(v)
  \/ /\ HDepth(u) = HDepth(v)
     /\ \E d \in 1..HDepth(u) :
          /\ AncestorAt(u, d - 1) = AncestorAt(v, d - 1)
          /\ SiblingBefore(AncestorAt(u, d), AncestorAt(v, d))

\* C10: a lookup of FindAll or Find applies its functor to every node of the
\* raw tree exactly once and returns the matching nodes, without duplicates,
\* in breadth-first order.
C10_LookupBreadthFirst ==
  (Answered("FindAll") \/ Answered("Find")) =>
    /\ Range(lkVisited) = Nodes
    /\ NoDuplicates(lkVisited)
    /\ Range(lkResults) = {h \in Nodes : Query(call, h)}
    /\ NoDuplicates(lkResults)
    /\ \A i, j \in DOMAIN lkVisited : i < j => BfsBefore(lkVisited[i], lkVisited[j])
    /\ \A i, j \in DOMAIN lkResults : i < j => BfsBefore(lkResults[i], lkResults[j])

\* a lookup returning two nodes, the later in the document first
C10_Witness ==
  /\ Answered("FindAll") \/ Answered("Find")
  /\ \E i, j \in DOMAIN lkResults : i < j /\ lkResults[i] > lkResults[j]

----------------------------------------------------------------------------
\* C11: no indexed node appears more than once in the slice N.FindAll(tags...)
\* returns, nor in the slice N.Find(K, V) returns.
C11_NoDuplicateResults ==
  (Answered("Stew.FindAll") \/ Answered("Stew.Find")) =>
    \A n \in BagToSet(results) : CopiesIn(n, results) = 1

\* FindAll with a tag listed twice that the node itself bears, or Find on a
\* node that matches by its own attributes, returning a descendant as well
C11_Witness ==
  /\ call.node \in BagToSet(results)
  /\ BagCardinality(results) >= 2
  /\ \/ /\ Answered("Stew.FindAll")
        /\ \E i, j \in DOMAIN call.tags :
             i # j /\ call.tags[i] = call.tags[j] /\ call.tags[i] = stew[call.node].Tag
     \/ /\ Answered("Stew.Find")
        /\ call.val \in Range(AttrGet(stew[call.node].Attrs, call.key))

\* no indexed node bears one of the tags
NoStewTagged(tags) == \A n \in Stews : stew[n].Tag \notin TagsOf(tags)

\* no indexed node carries the attribute pair
NoStewCarries(k, v) == \A n \in Stews : v \notin Range(AttrGet(stew[n].Attrs, k))

\* no raw node, of any kind, has one of the tags as its Data
NoNodeTagged(tags) == \A h \in Nodes : html[h].Data \notin TagsOf(tags)

\* no raw node has an attribute k = v
NoNodeCarries(k, v) ==
  \A h \in Nodes : \A i \in DOMAIN html[h].Attr :
     ~(html[h].Attr[i].Key = k /\ html[h].Attr[i].Val = v)

\* C12: a query for a tag no node bears, or for an attribute pair no node
\* carries, returns an empty sequence: N.FindAll and N.Find on every indexed
\* node, and the lookups FindAll and Find on the raw root.
C12_AbsentGivesEmpty ==
  /\ (Answered("Stew.FindAll") /\ NoStewTagged(call.tags)) => results = EmptyBag
  /\ (Answered("Stew.Find") /\ NoStewCarries(call.key, call.val)) => results = EmptyBag
  /\ (Answered("FindAll") /\ NoNodeTagged(call.tags)) => lkResults = <<>>
  /\ (Answered("Find") /\ NoNodeCarries(call.key, call.val)) => lkResults = <<>>

----------------------------------------------------------------------------
\* C13: a second NewFromNode on the same raw tree returns a tree isomorphic
\* to the first: node by node the same Pos, Tag, Attrs, Children in the same
\* order, and descendant indexes with the same Pos sets per tag.
C13_SecondCallSameTree ==
  (first # NoTree /\ Built) => ReturnedTree = first

\* the second call has returned a tree where a tag set went through a merge
C13_Witness ==
  /\ first # NoTree
  /\ Built
  /\ \E n \in Stews \ {RootNode} : \E t \in DOMAIN stew[n].Descs :
       Cardinality(DescSet(n, t)) >= 2

\* the element children of n the upward pass has not yet dequeued
Pending(n) == {c \in Range(stew[n].Children) : c \notin Range(merged)}

\* the upward pass has enqueued n
Enqueued(n) == n \in Range(upQueue) \cup Range(merged)

\* C14: in the upward pass a node with element children is enqueued, and
\* merged, only after each of its element children was dequeued and merged:
\* its counter is the number of children still to come, reaches zero exactly
\* then and does not wrap; and every indexed node is dequeued exactly once.
C14_ParentAfterChildren ==
  /\ NoDuplicates(merged \o upQueue)
  /\ \A i \in DOMAIN merged :
       Range(stew[merged[i]].Children) \subseteq {merged[j] : j \in 1..(i - 1)}
  /\ pc # "down" =>
       \A n \in Stews :
         /\ CountGet(upVisits, n) = Cardinality(Pending(n))
         /\ Enqueued(n) <=> Pending(n) = {}
  /\ Built => Range(merged) = Stews

\* in the middle of the upward pass: a node waits for the second of its
\* two children, the first being merged
C14_Witness ==
  /\ pc = "up"
  /\ \E n \in Stews :
       /\ Len(stew[n].Children) = 2
       /\ Cardinality(Pending(n)) = 1
       /\ ~Enqueued(n)

\* NewFromNode is about to return: both queues are empty, every node was
\* merged and the root was merged last
Finished ==
  /\ pc = "done"
  /\ downQueue = <<>>
  /\ upQueue = <<>>
  /\ Range(merged) = Stews
  /\ merged # <<>>
  /\ merged[Len(merged)] = RootNode

\* C15: NewFromNode terminates on every finite raw tree, with both queues
\* empty, the root merged last and no node left unmerged.
C15_Terminates == <>Finished

\* finished trees with a root without element children, and with a node
\* below the root whose only children are text
C15_Witness ==
  /\ Finished
  /\ \/ Kids(RootNode) # <<>> /\ stew[RootNode].Children = <<>>
     \/ \E n \in Stews \ {RootNode} :
          Kids(n) # <<>> /\ \A c \in Range(Kids(n)) : html[c].Type = TextNode

\* the contents of the descendant index of every node
DescContents ==
  [n \in Stews |-> [t \in DOMAIN stew[n].Descs |-> sets[stew[n].Descs[t]]]]

\* C16: a step of the upward pass that merges into P changes the descendant
\* index of P only: the contents of Descs[T] of every other node stay.
C16_MergeWritesOnlyCurr ==
  [][(pc = "up" /\ upQueue # <<>>) =>
       \A n \in Stews \ {Head(upQueue)} : DescContents'[n] = DescContents[n]]_vars

\* C17: after NewFromNode returns, every proper descendant d of N is in
\* N.Descs[d.Tag], every member of N.Descs[T] has the Tag T, and a key of
\* N.Descs has a set that is not empty.
C17_DescsComplete ==
  Built =>
    \A n \in Stews :
      /\ \A d \in Subtree(n) \ {n} : d \in DescSet(n, stew[d].Tag)
      /\ \A t \in DOMAIN stew[n].Descs :
           /\ DescSet(n, t) # {}
           /\ \A m \in DescSet(n, t) : stew[m].Tag = t

\* a node with a child and a grandchild of one tag: the grandchild reaches
\* the node by a merge into a set the node already has
C17_Witness ==
  /\ Built
  /\ \E n, c, d \in Stews :
       /\ stew[c].Parent = n
       /\ stew[d].Parent = c
       /\ stew[c].Tag = stew[d].Tag
       /\ d \in DescSet(n, stew[d].Tag)

====
